---- MODULE Spec2Model ----
(***************************************************************************)
(* zlaunch: the launcher view (src/ui/launcher.rs), the item model         *)
(* (src/items/mod.rs) and the list delegates the view drives.              *)
(*                                                                         *)
(* Text is a sequence of one-character strings.  Indices into the item     *)
(* collection and into the filtered view are 0-based, as in the code; a    *)
(* TLA+ sequence s is read at position i as s[i + 1].                      *)
(***************************************************************************)
EXTENDS Integers, Sequences, FiniteSets, TLC

\* Option<T>: None is the empty sequence, Some(x) the sequence holding x
None == <<>>
Some(x) == <<x>>
unwrap(o) == o[1]
unwrap_or(o, default) == IF o = None THEN default ELSE o[1]

-----------------------------------------------------------------------------
(* Bounds of the model *)

\* async_search requests issued over one run
MaxTasks == 3
\* entries into a sub-mode (emoji picker or clipboard history) over one run
MaxVisits == 2
\* length of the item collections the filter engine is checked on
MaxItems == 3

-----------------------------------------------------------------------------
(* Item model: src/items/mod.rs *)

\* enum ListItem
ListItem == {"Application", "Window", "Action", "Submenu", "Calculator", "Search"}

Item(kind, id, name) == [kind |-> kind, id |-> id, name |-> name]

\* ListItem::is_submenu
is_submenu(item) == item.kind = "Submenu"

sort_priority_commands_last(item) ==
    CASE item.kind = "Calculator" -> 0
      [] item.kind = "Search" -> 1
      [] item.kind = "Window" -> 2
      [] item.kind = "Submenu" -> 3
      [] item.kind = "Action" -> 5
      [] item.kind = "Application" -> 4

\* ListItem::sort_priority
sort_priority(item) ==
    CASE item.kind = "Calculator" -> 0
      [] item.kind = "Search" -> 1
      [] item.kind = "Window" -> 2
      [] item.kind = "Submenu" -> 3
      [] item.kind = "Action" -> 3
      [] item.kind = "Application" -> 4

section_name_actions_apart(item) ==
    CASE item.kind = "Calculator" -> "Calculator"
      [] item.kind = "Search" -> "Search"
      [] item.kind = "Window" -> "Windows"
      [] item.kind = "Submenu" -> "Commands"
      [] item.kind = "Action" -> "Actions"
      [] item.kind = "Application" -> "Applications"

\* ListItem::section_name
section_name(item) ==
    CASE item.kind = "Calculator" -> "Calculator"
      [] item.kind = "Search" -> "Search"
      [] item.kind = "Window" -> "Windows"
      [] item.kind = "Submenu" -> "Commands"
      [] item.kind = "Action" -> "Commands"
      [] item.kind = "Application" -> "Applications"

-----------------------------------------------------------------------------
(* Fuzzy filter engine: ItemListDelegate::filter_items_sync *)

\* char::to_lowercase on the characters the model uses
to_lowercase(c) ==
    CASE c = "C" -> "c"
      [] c = "D" -> "d"
      [] c = "G" -> "g"
      [] c = "E" -> "e"
      [] c = "F" -> "f"
      [] c = "S" -> "s"
      [] c = "T" -> "t"
      [] OTHER -> c

\* Position in name (1-based) at which the greedy leftmost match of query[j..]
\* against name[i..] ends; 0 when query is no subsequence of name.
RECURSIVE match_end(_, _, _, _)
match_end(name, query, i, j) ==
    IF j > Len(query) THEN i - 1
    ELSE IF i > Len(name) THEN 0
    ELSE IF to_lowercase(name[i]) = to_lowercase(query[j])
         THEN match_end(name, query, i + 1, j + 1)
         ELSE match_end(name, query, i + 1, j)

\* Score of an empty query, shared by every item
EmptyScore == 0
\* Highest score of a non-empty match
TopScore == 100

\* Match score of name against query: None when there is no match, the fixed
\* score when query is empty, else higher the earlier the match completes.
fuzzy_match(name, query) ==
    IF query = <<>> THEN Some(EmptyScore)
    ELSE IF match_end(name, query, 1, 1) = 0 THEN None
    ELSE Some(TopScore - match_end(name, query, 1, 1))

\* Indices of items that match query
matching(items, query) ==
    {i \in 0..(Len(items) - 1) : fuzzy_match(items[i + 1].name, query) # None}

\* Sort key of the filter: priority ascending, score descending, index
\* ascending; score maps each matching index to its match score
ranks_before(items, score, i, j) ==
    LET pi == sort_priority(items[i + 1])
        pj == sort_priority(items[j + 1])
    IN  \/ pi < pj
        \/ pi = pj /\ score[i] > score[j]
        \/ pi = pj /\ score[i] = score[j] /\ i < j

\* ItemListDelegate::filter_items_sync: the ranked indices for query
filter_items_sync(items, query) ==
    LET m == matching(items, query)
        score == [i \in m |-> unwrap(fuzzy_match(items[i + 1].name, query))]
        rank == [i \in m |-> Cardinality({j \in m : ranks_before(items, score, j, i)})]
    IN  [k \in 1..Cardinality(m) |-> CHOOSE i \in m : rank[i] = k - 1]

-----------------------------------------------------------------------------
(* Sectioned list delegate of the main view: ItemListDelegate *)

\* Section labels of a filtered view, in order of first appearance
RECURSIVE section_labels(_, _, _)
section_labels(items, indices, k) ==
    IF k = 0 THEN <<>>
    ELSE LET before == section_labels(items, indices, k - 1)
             label == section_name(items[indices[k] + 1])
         IN  IF \E s \in 1..Len(before) : before[s] = label THEN before
             ELSE Append(before, label)

\* Number of filtered items carrying a section label
section_count(items, indices, label) ==
    Cardinality({k \in 1..Len(indices) : section_name(items[indices[k] + 1]) = label})

\* Global index at which the section after the first s sections starts
RECURSIVE section_start(_, _, _, _)
section_start(items, indices, labels, s) ==
    IF s = 0 THEN 0
    ELSE section_start(items, indices, labels, s - 1)
         + section_count(items, indices, labels[s])

\* Section boundaries of a filtered view: label, first global index, size
section_info(items, indices) ==
    LET labels == section_labels(items, indices, Len(indices))
    IN  [s \in 1..Len(labels) |->
            [name |-> labels[s],
             start |-> section_start(items, indices, labels, s - 1),
             count |-> section_count(items, indices, labels[s])]]

Min(a, b) == IF a < b THEN a ELSE b

\* Number of items the sections info cover
covered(info) == IF Len(info) = 0 THEN 0 ELSE info[Len(info)].start + info[Len(info)].count

global_to_section_row_from_one(info, global) ==
    LET g == Min(global, covered(info) - 1)
        s == CHOOSE t \in 1..Len(info) :
                 info[t].start <= g /\ g < info[t].start + info[t].count
    IN  IF Len(info) = 0 THEN <<0, 0>> ELSE <<s - 1, g - info[s].start + 1>>

\* ItemListDelegate::global_to_section_row: (section ordinal, row in section)
\* of a global index, an index past the end clamped to the last item
global_to_section_row(info, global) ==
    LET g == Min(global, covered(info) - 1)
        s == CHOOSE t \in 1..Len(info) :
                 info[t].start <= g /\ g < info[t].start + info[t].count
    IN  IF Len(info) = 0 THEN <<0, 0>> ELSE <<s - 1, g - info[s].start>>

section_row_to_global_unclamped(info, section, row) ==
    LET s == Min(section, Len(info) - 1) + 1
    IN  IF Len(info) = 0 THEN 0
        ELSE info[s].start + row

\* ItemListDelegate::section_row_to_global: a section or row past the end
\* clamped to the last section and to its last row
section_row_to_global(info, section, row) ==
    LET s == Min(section, Len(info) - 1) + 1
    IN  IF Len(info) = 0 THEN 0
        ELSE info[s].start + Min(row, info[s].count - 1)

Some0(indices) == IF Len(indices) = 0 THEN None ELSE Some(0)

\* The delegate showing the filtered view indices of items under query
with_view(query, items, indices) ==
    [items |-> items,
     query |-> query,
     filtered_indices |-> indices,
     section_info |-> section_info(items, indices),
     selected_index |-> Some0(indices)]

\* ItemListDelegate::new: empty query, every item shown, first item selected
ItemListDelegate_new(items) ==
    with_view(<<>>, items, filter_items_sync(items, <<>>))

\* ItemListDelegate::filtered_count
filtered_count(d) == Len(d.filtered_indices)

\* ItemListDelegate::set_query_only: records the query, no refiltering
set_query_only(d, query) == [d EXCEPT !.query = query]

\* ItemListDelegate::clear_query: back to the unfiltered list
clear_query(d, items) ==
    with_view(<<>>, items, filter_items_sync(items, <<>>))

\* clear_query, given the delegate as ItemListDelegate::new built it: the query,
\* the view, the section boundaries and the cursor are all those of unfiltered
clear_query_to(d, unfiltered) ==
    [d EXCEPT !.query = unfiltered.query,
              !.filtered_indices = unfiltered.filtered_indices,
              !.section_info = unfiltered.section_info,
              !.selected_index = unfiltered.selected_index]

\* Whether a result computed for query is still wanted by the delegate
is_current(d, query) == d.query = query

\* ItemListDelegate::apply_filter_results: no-op when the result is stale,
\* else the view and the section boundaries are rebuilt and the cursor reset
apply_filter_results(d, items, query, indices) ==
    IF ~is_current(d, query) THEN d
    ELSE with_view(d.query, items, indices)

\* ItemListDelegate::selected_index
selected_index(d) == d.selected_index

\* ItemListDelegate::set_selected
set_selected(d, index) == [d EXCEPT !.selected_index = Some(index)]

\* ItemListDelegate::selected_item
selected_item(d, items) ==
    IF d.selected_index = None THEN None
    ELSE IF unwrap(d.selected_index) >= filtered_count(d) THEN None
    ELSE Some(items[d.filtered_indices[unwrap(d.selected_index) + 1] + 1])

-----------------------------------------------------------------------------
(* Grid delegate of the emoji picker and list delegate of the clipboard     *)
(* history: EmojiGridDelegate, ClipboardListDelegate                        *)

\* The emoji dataset
Emojis == << [emoji |-> "fire", name |-> <<"f">>],
             [emoji |-> "leaf", name |-> <<"e", "f">>],
             [emoji |-> "star", name |-> <<"s">>] >>

\* The clipboard history, newest first
ClipboardHistory == << [content |-> "Text", name |-> <<"f", "e">>],
                       [content |-> "Image", name |-> <<"s">>] >>

\* Columns of the emoji grid
GridColumns == 2

\* Entries matching query, best score first, ties in source order
filter_entries(entries, query) ==
    LET m == matching(entries, query)
        score == [i \in m |-> unwrap(fuzzy_match(entries[i + 1].name, query))]
        before(j, i) == score[j] > score[i] \/ (score[j] = score[i] /\ j < i)
        rank == [i \in m |-> Cardinality({j \in m : before(j, i)})]
    IN  [k \in 1..Cardinality(m) |-> CHOOSE i \in m : rank[i] = k - 1]

\* EmojiGridDelegate::new
EmojiGridDelegate_new ==
    LET all == filter_entries(Emojis, <<>>)
    IN  [kind |-> "emoji", query |-> <<>>,
         filtered_indices |-> all, selected_index |-> Some0(all)]

\* ClipboardListDelegate::new
ClipboardListDelegate_new ==
    LET all == filter_entries(ClipboardHistory, <<>>)
    IN  [kind |-> "clipboard", query |-> <<>>,
         filtered_indices |-> all, selected_index |-> Some0(all)]

\* EmojiGridDelegate::set_query followed by EmojiGridDelegate::filter
emoji_set_query_filter(d, query) ==
    LET found == filter_entries(Emojis, query)
    IN  [d EXCEPT !.query = query,
                  !.filtered_indices = found,
                  !.selected_index = Some0(found)]

\* ClipboardListDelegate::set_query: records the query and refilters
clipboard_set_query(d, query) ==
    LET found == filter_entries(ClipboardHistory, query)
    IN  [d EXCEPT !.query = query,
                  !.filtered_indices = found,
                  !.selected_index = Some0(found)]

\* Linear step forward with wraparound: EmojiGridDelegate::select_right,
\* ClipboardListDelegate::select_down
select_forward(d) ==
    IF filtered_count(d) = 0 THEN d
    ELSE LET current == unwrap_or(d.selected_index, 0)
         IN  [d EXCEPT !.selected_index =
                  Some(IF current + 1 >= filtered_count(d) THEN 0 ELSE current + 1)]

\* Linear step backward with wraparound: EmojiGridDelegate::select_left,
\* ClipboardListDelegate::select_up
select_backward(d) ==
    IF filtered_count(d) = 0 THEN d
    ELSE LET current == unwrap_or(d.selected_index, 0)
         IN  [d EXCEPT !.selected_index =
                  Some(IF current = 0 THEN filtered_count(d) - 1 ELSE current - 1)]

selected_row_is_column(d) ==
    IF d.selected_index = None THEN None
    ELSE Some(unwrap(d.selected_index) % GridColumns)

\* EmojiGridDelegate::selected_row
selected_row(d) ==
    IF d.selected_index = None THEN None
    ELSE Some(unwrap(d.selected_index) \div GridColumns)

-----------------------------------------------------------------------------
(* The launcher view: src/ui/launcher.rs *)

\* The items handed to LauncherView::new
MainItems == << Item("Application", "app-firefox", <<"F", "i">>),
                Item("Window", "window-terminal", <<"T", "e">>),
                Item("Action", "action-shutdown", <<"S", "e">>),
                Item("Submenu", "submenu-emojis", <<"E", "f">>),
                Item("Calculator", "calculator", <<"2">>),
                Item("Submenu", "submenu-clipboard", <<"C", "f">>),
                Item("Search", "search-google-f", <<"S", "f">>),
                Item("Submenu", "submenu-power", <<"P">>) >>

\* The texts the user types into the input
Queries == {<<>>, <<"f">>, <<"z">>}

\* filter_items_sync on the items of the main view, computed once per text
MainFiltered == [q \in Queries |-> filter_items_sync(MainItems, q)]

\* The main delegate after apply_filter_results took the result for the
\* query it holds, computed once per text
MainApplied ==
    [q \in Queries |->
        apply_filter_results(set_query_only(ItemListDelegate_new(MainItems), q),
                             MainItems, q, MainFiltered[q])]

\* The main delegate after clear_query, computed once
MainUnfiltered == clear_query(ItemListDelegate_new(MainItems), MainItems)

\* enum ViewMode
ViewMode == {"Main", "EmojiPicker", "ClipboardHistory"}

VARIABLES
    view_mode,              \* LauncherView::view_mode
    list_state,             \* LauncherView::list_state, the main delegate
    entities,               \* the sub-mode delegates created so far, each held
                            \* by the input subscription made when it was created
    emoji_list_state,       \* LauncherView::emoji_list_state: None or an entity
    clipboard_list_state,   \* LauncherView::clipboard_list_state: None or an entity
    input_value,            \* text of LauncherView::input_state
    placeholder,            \* placeholder of LauncherView::input_state
    tasks,                  \* the tasks async_search spawned that are still alive,
                            \* each with the items and the query it captured
    search_task,            \* LauncherView::_search_task: 0 (Task::ready) or the
                            \* id of the task it holds, the latest one spawned
    set_value_emits,        \* whether InputState::set_value emits InputEvent::Change
    raced,                  \* history: the request that set the main query was
                            \* issued while the task of the one before was alive
    view_source,            \* history: the main filtered view shows the result of
                            \* the "latest" request or of a "superseded" one, or
                            \* "none" of these
    scroll_target,          \* the IndexPath the last step passed to scroll_to_item
    events,                 \* external effects of the last step, in order
    f_items, f_query,       \* filter engine under test: the input,
    f_view, f_probe,        \* the filtered view and one index mapped both ways
    f_stale,                \* one index of an earlier view mapped on this one
    s_items,                \* search items under test: the items built so far
    c_color, c_text,        \* colour parsing under test: a colour, a text,
    c_parsed,               \* and what parse_color made of the text
    t_now, t_time,          \* timestamp formatting under test: the clock, the
    t_label                 \* time of an entry and what format_timestamp returned

launcher_vars == <<view_mode, list_state, entities, emoji_list_state,
                   clipboard_list_state, input_value, placeholder, tasks,
                   search_task, set_value_emits, raced, view_source,
                   scroll_target, events>>
filter_vars == <<f_items, f_query, f_view, f_probe, f_stale>>
pure_vars == <<s_items, c_color, c_text, c_parsed, t_now, t_time, t_label>>
vars == <<launcher_vars, filter_vars, pure_vars>>

\* LauncherView::new
InitLauncher ==
    /\ view_mode = "Main"
    /\ list_state = ItemListDelegate_new(MainItems)
    /\ entities = <<>>
    /\ emoji_list_state = None
    /\ clipboard_list_state = None
    /\ input_value = <<>>
    /\ placeholder = "Search applications..."
    /\ tasks = {}
    /\ search_task = 0
    /\ set_value_emits \in BOOLEAN
    /\ raced = FALSE
    /\ view_source = "none"
    /\ scroll_target = None
    /\ events = <<>>

\* Nothing built, parsed or formatted yet
InitPure ==
    /\ s_items = <<>>
    /\ c_color = None
    /\ c_text = None
    /\ c_parsed = None
    /\ t_now = 0
    /\ t_time = 0
    /\ t_label = None

drop_task_detached(tk, held) == tk

\* Assigning _search_task drops the task it held: a dropped task that has not
\* completed is cancelled and never applies its result
drop_task(tk, held) == {t \in tk : t.id # held}

\* An id no live task carries
fresh_id(tk) == CHOOSE n \in 1..(Cardinality(tk) + 1) : \A t \in tk : t.id # n

async_search_filters_inline(ls, tk, held, query) ==
    LET alive == drop_task(tk, held)
    IN  [list_state |-> apply_filter_results(set_query_only(ls, query), MainItems,
                                             query, MainFiltered[query]),
         tasks |-> alive \cup {[id |-> fresh_id(alive), items |-> ls.items,
                                query |-> query,
                                state |-> "pending", result |-> <<>>]},
         search_task |-> fresh_id(alive)]

\* LauncherView::async_search up to the spawn: the delegate, the live tasks and
\* _search_task after a request for query
async_search(ls, tk, held, query) ==
    LET alive == drop_task(tk, held)
    IN  [list_state |-> set_query_only(ls, query),
         tasks |-> alive \cup {[id |-> fresh_id(alive), items |-> ls.items,
                                query |-> query,
                                state |-> "pending", result |-> <<>>]},
         search_task |-> fresh_id(alive)]

\* The subscriptions made in enter_emoji_mode and enter_clipboard_mode, run
\* for one InputEvent::Change on every delegate they hold
notify_entities(ents, query) ==
    [e \in 1..Len(ents) |->
        IF ents[e].kind = "emoji" THEN emoji_set_query_filter(ents[e], query)
        ELSE clipboard_set_query(ents[e], query)]

\* One InputEvent::Change carrying query, delivered to every subscription: the
\* one made in LauncherView::new, then those holding the delegates ents; fresh
\* are the delegates created in the same step, subscribed after the event
EmitChange(ls, ents, fresh, query) ==
    LET r == async_search(ls, tasks, search_task, query)
    IN  /\ Cardinality(r.tasks) <= MaxTasks
        /\ list_state' = r.list_state
        /\ tasks' = r.tasks
        /\ search_task' = r.search_task
        /\ raced' = (\E t \in tasks : t.id = search_task)
        /\ view_source' = "none"
        /\ entities' = notify_entities(ents, query) \o fresh

\* InputState::set_value(""), called by a handler that leaves the main
\* delegate as ls and whose subscriptions hold ents; cleared tells whether the
\* handler called clear_query
SetValueEmpty(ls, ents, fresh, cleared) ==
    /\ input_value' = <<>>
    /\ IF set_value_emits
       THEN EmitChange(ls, ents, fresh, <<>>)
       ELSE /\ list_state' = ls
            /\ entities' = ents \o fresh
            /\ raced' = IF cleared THEN FALSE ELSE raced
            /\ view_source' = IF cleared THEN "none" ELSE view_source
            /\ UNCHANGED <<tasks, search_task>>

\* The user edits the input: InputEvent::Change
InputChange ==
    \E query \in Queries :
        /\ query # input_value
        /\ input_value' = query
        /\ EmitChange(list_state, entities, <<>>, query)
        /\ scroll_target' = None
        /\ events' = <<>>
        /\ UNCHANGED <<view_mode, emoji_list_state, clipboard_list_state,
                       placeholder, set_value_emits, filter_vars, pure_vars>>

\* ItemListDelegate::filter_items_sync on the items a task captured
filter_snapshot(items, query) ==
    IF items = MainItems THEN MainFiltered[query]
    ELSE filter_items_sync(items, query)

WorkerFinish_consumes_snapshot ==
    \E t \in tasks :
        /\ t.state = "pending"
        /\ tasks' = (tasks \ {t}) \cup
                    {[t EXCEPT !.state = "computed",
                               !.result = filter_snapshot(t.items, t.query),
                               !.items = <<>>]}
        /\ scroll_target' = None
        /\ events' = <<>>
        /\ UNCHANGED <<view_mode, list_state, entities, emoji_list_state,
                       clipboard_list_state, input_value, placeholder,
                       search_task, set_value_emits, raced, view_source,
                       filter_vars, pure_vars>>

\* The background executor finishes filter_items_sync for a task
WorkerFinish ==
    \E t \in tasks :
        /\ t.state = "pending"
        /\ tasks' = (tasks \ {t}) \cup
                    {[t EXCEPT !.state = "computed",
                               !.result = filter_snapshot(t.items, t.query)]}
        /\ scroll_target' = None
        /\ events' = <<>>
        /\ UNCHANGED <<view_mode, list_state, entities, emoji_list_state,
                       clipboard_list_state, input_value, placeholder,
                       search_task, set_value_emits, raced, view_source,
                       filter_vars, pure_vars>>

\* apply_filter_results for the result of task t, on the main delegate d
apply_task_result(d, t) ==
    IF ~is_current(d, t.query) THEN d
    ELSE IF t.items = MainItems /\ t.result = MainFiltered[t.query]
         THEN MainApplied[t.query]
    ELSE apply_filter_results(d, t.items, t.query, t.result)

ApplyTask_discards(t) ==
    /\ t \in tasks
    /\ t.state = "computed"
    /\ tasks' = tasks \ {t}
    /\ scroll_target' = None
    /\ events' = <<>>
    /\ UNCHANGED <<view_mode, list_state, entities, emoji_list_state,
                   clipboard_list_state, input_value, placeholder, search_task,
                   set_value_emits, raced, view_source, filter_vars, pure_vars>>

\* The spawned task t resumes on the main thread, applies its result and ends
ApplyTask(t) ==
    /\ t \in tasks
    /\ t.state = "computed"
    /\ list_state' = apply_task_result(list_state, t)
    /\ view_source' = IF ~is_current(list_state, t.query) THEN view_source
                      ELSE IF t.id = search_task THEN "latest" ELSE "superseded"
    /\ tasks' = tasks \ {t}
    /\ scroll_target' = None
    /\ events' = <<>>
    /\ UNCHANGED <<view_mode, entities, emoji_list_state, clipboard_list_state,
                   input_value, placeholder, search_task, set_value_emits,
                   raced, filter_vars, pure_vars>>

ApplyResults == \E t \in tasks : ApplyTask(t)

-----------------------------------------------------------------------------
(* Navigation: select_next, select_prev, select_tab, select_tab_prev *)

\* The delegate behind an Option<Entity>
deref(handle) == entities[unwrap(handle)]

next_index_past_end(current, count) ==
    IF current + 1 > count THEN 0 ELSE current + 1

\* select_next, main view: index after current, wrapping to 0
next_index(current, count) ==
    IF current + 1 >= count THEN 0 ELSE current + 1

\* select_prev, main view: index before current, wrapping to count - 1
prev_index(current, count) ==
    IF current = 0 THEN count - 1 ELSE current - 1

tab_index_stops_at_end(current, count) ==
    IF current + 1 >= count THEN current ELSE current + 1

\* select_tab, main view
tab_index(current, count) ==
    IF current + 1 >= count THEN 0 ELSE current + 1

\* select_tab_prev, main view
tab_prev_index(current, count) ==
    IF current = 0 THEN count - 1 ELSE current - 1

\* The main-view arm of the four navigation handlers; step is the index rule
MainSelect(step(_, _)) ==
    LET count == filtered_count(list_state)
        current == unwrap_or(selected_index(list_state), 0)
        target == step(current, count)
    IN  IF count = 0
        THEN /\ scroll_target' = None
             /\ UNCHANGED list_state
        ELSE /\ list_state' = set_selected(list_state, target)
             /\ scroll_target' = Some(global_to_section_row(
                                     list_state.section_info, target))

\* The emoji-picker arm: the grid scrolls to the row of the selection
EmojiSelect(move(_)) ==
    /\ emoji_list_state # None
    /\ LET d == move(deref(emoji_list_state))
       IN  /\ entities' = [entities EXCEPT ![unwrap(emoji_list_state)] = d]
           /\ scroll_target' = IF selected_row(d) = None THEN None
                               ELSE Some(<<unwrap(selected_row(d))>>)

\* The clipboard-history arm: the list scrolls to the selection
ClipboardSelect(move(_)) ==
    /\ clipboard_list_state # None
    /\ LET d == move(deref(clipboard_list_state))
       IN  /\ entities' = [entities EXCEPT ![unwrap(clipboard_list_state)] = d]
           /\ scroll_target' = IF selected_index(d) = None THEN None
                               ELSE Some(<<unwrap(selected_index(d))>>)

Navigate(step(_, _), move(_)) ==
    /\ \/ view_mode = "Main" /\ MainSelect(step) /\ UNCHANGED entities
       \/ view_mode = "EmojiPicker" /\ EmojiSelect(move) /\ UNCHANGED list_state
       \/ view_mode = "ClipboardHistory" /\ ClipboardSelect(move)
          /\ UNCHANGED list_state
    /\ events' = <<>>
    /\ UNCHANGED <<view_mode, emoji_list_state, clipboard_list_state, input_value,
                   placeholder, tasks, search_task, set_value_emits, raced,
                   view_source, filter_vars, pure_vars>>

SelectNext_no_guard ==
    /\ \/ /\ view_mode = "Main"
          /\ LET count == filtered_count(list_state)
                 target == next_index(unwrap_or(selected_index(list_state), 0), count)
             IN  /\ list_state' = set_selected(list_state, target)
                 /\ scroll_target' =
                       IF count = 0 THEN None
                       ELSE Some(global_to_section_row(list_state.section_info, target))
          /\ UNCHANGED entities
       \/ view_mode = "EmojiPicker" /\ EmojiSelect(select_forward)
          /\ UNCHANGED list_state
       \/ view_mode = "ClipboardHistory" /\ ClipboardSelect(select_forward)
          /\ UNCHANGED list_state
    /\ events' = <<>>
    /\ UNCHANGED <<view_mode, emoji_list_state, clipboard_list_state, input_value,
                   placeholder, tasks, search_task, set_value_emits, raced,
                   view_source, filter_vars, pure_vars>>

\* LauncherView::select_next
SelectNext == Navigate(next_index, select_forward)

SelectPrev_also_main ==
    LET count == filtered_count(list_state)
        moved == IF count = 0 THEN list_state
                 ELSE set_selected(list_state,
                          prev_index(unwrap_or(selected_index(list_state), 0), count))
    IN  /\ \/ view_mode = "Main" /\ MainSelect(prev_index) /\ UNCHANGED entities
           \/ view_mode = "EmojiPicker" /\ EmojiSelect(select_backward)
              /\ list_state' = moved
           \/ view_mode = "ClipboardHistory" /\ ClipboardSelect(select_backward)
              /\ list_state' = moved
        /\ events' = <<>>
        /\ UNCHANGED <<view_mode, emoji_list_state, clipboard_list_state, input_value,
                       placeholder, tasks, search_task, set_value_emits, raced,
                       view_source, filter_vars, pure_vars>>

\* LauncherView::select_prev
SelectPrev == Navigate(prev_index, select_backward)

\* LauncherView::select_tab
SelectTab == Navigate(tab_index, select_forward)

\* LauncherView::select_tab_prev
SelectTabPrev == Navigate(tab_prev_index, select_backward)

-----------------------------------------------------------------------------
(* Mode transitions: enter_*_mode, exit_*_mode, reset_search *)

\* What a step leaves alone when it changes neither mode nor delegates
Stay == UNCHANGED <<view_mode, list_state, entities, emoji_list_state,
                    clipboard_list_state, input_value, placeholder, tasks,
                    search_task, raced, view_source>>

enter_emoji_mode_no_switch ==
    /\ Len(entities) < MaxVisits
    /\ SetValueEmpty(list_state, entities, <<EmojiGridDelegate_new>>, FALSE)
    /\ placeholder' = "Search emojis..."
    /\ emoji_list_state' = Some(Len(entities) + 1)
    /\ UNCHANGED <<view_mode, clipboard_list_state>>

\* LauncherView::enter_emoji_mode
enter_emoji_mode ==
    /\ Len(entities) < MaxVisits
    /\ SetValueEmpty(list_state, entities, <<EmojiGridDelegate_new>>, FALSE)
    /\ placeholder' = "Search emojis..."
    /\ emoji_list_state' = Some(Len(entities) + 1)
    /\ view_mode' = "EmojiPicker"
    /\ UNCHANGED clipboard_list_state

enter_clipboard_mode_keeps_input ==
    /\ Len(entities) < MaxVisits
    /\ entities' = entities \o <<ClipboardListDelegate_new>>
    /\ placeholder' = "Search clipboard history..."
    /\ clipboard_list_state' = Some(Len(entities) + 1)
    /\ view_mode' = "ClipboardHistory"
    /\ UNCHANGED <<emoji_list_state, input_value, list_state, tasks, search_task,
                   raced, view_source>>

\* LauncherView::enter_clipboard_mode
enter_clipboard_mode ==
    /\ Len(entities) < MaxVisits
    /\ SetValueEmpty(list_state, entities, <<ClipboardListDelegate_new>>, FALSE)
    /\ placeholder' = "Search clipboard history..."
    /\ clipboard_list_state' = Some(Len(entities) + 1)
    /\ view_mode' = "ClipboardHistory"
    /\ UNCHANGED emoji_list_state

exit_emoji_mode_keeps_query ==
    /\ view_mode' = "Main"
    /\ emoji_list_state' = None
    /\ placeholder' = "Search applications..."
    /\ SetValueEmpty(list_state, entities, <<>>, FALSE)
    /\ UNCHANGED clipboard_list_state

\* LauncherView::exit_emoji_mode
exit_emoji_mode ==
    /\ view_mode' = "Main"
    /\ emoji_list_state' = None
    /\ placeholder' = "Search applications..."
    /\ SetValueEmpty(clear_query_to(list_state, MainUnfiltered), entities, <<>>, TRUE)
    /\ UNCHANGED clipboard_list_state

exit_clipboard_mode_keeps_view ==
    /\ view_mode' = "Main"
    /\ clipboard_list_state' = None
    /\ placeholder' = "Search applications..."
    /\ SetValueEmpty(list_state, entities, <<>>, FALSE)
    /\ UNCHANGED emoji_list_state

\* LauncherView::exit_clipboard_mode
exit_clipboard_mode ==
    /\ view_mode' = "Main"
    /\ clipboard_list_state' = None
    /\ placeholder' = "Search applications..."
    /\ SetValueEmpty(clear_query_to(list_state, MainUnfiltered), entities, <<>>, TRUE)
    /\ UNCHANGED emoji_list_state

ResetSearch_returns_to_main ==
    /\ SetValueEmpty(clear_query_to(list_state, MainUnfiltered), entities, <<>>, TRUE)
    /\ view_mode' = "Main"
    /\ emoji_list_state' = None
    /\ clipboard_list_state' = None
    /\ scroll_target' = None
    /\ events' = <<>>
    /\ UNCHANGED <<placeholder, set_value_emits, filter_vars, pure_vars>>

\* LauncherView::reset_search, called by the host when it shows the launcher
ResetSearch ==
    /\ SetValueEmpty(clear_query_to(list_state, MainUnfiltered), entities, <<>>, TRUE)
    /\ scroll_target' = None
    /\ events' = <<>>
    /\ UNCHANGED <<view_mode, emoji_list_state, clipboard_list_state, placeholder,
                   set_value_emits, filter_vars, pure_vars>>

-----------------------------------------------------------------------------
(* Confirm, cancel, back *)

effect_retries(name, ok) == IF ok THEN <<name>> ELSE <<name, "warn", name>>

\* A fallible external call: the effect, and a warning when it failed
effect(name, ok) == IF ok THEN <<name>> ELSE <<name, "warn">>

on_confirm_hides_first(item, ok) ==
    <<"on_hide">> \o
    (CASE item.kind = "Application" -> <<"launch_application">>
       [] item.kind = "Window" -> effect("focus_window", ok)
       [] item.kind = "Calculator" -> effect("copy_to_clipboard", ok)
       [] item.kind = "Action" -> effect("execute", ok)
       [] item.kind = "Search" -> effect("xdg-open", ok)
       [] OTHER -> <<>>)

\* The on_confirm closure of LauncherView::new
on_confirm(item, ok) ==
    (CASE item.kind = "Application" -> <<"launch_application">>
       [] item.kind = "Window" -> effect("focus_window", ok)
       [] item.kind = "Calculator" -> effect("copy_to_clipboard", ok)
       [] item.kind = "Action" -> effect("execute", ok)
       [] item.kind = "Search" -> effect("xdg-open", ok)
       [] OTHER -> <<>>)
    \o <<"on_hide">>

\* The on_select closures of enter_emoji_mode and enter_clipboard_mode
on_select(ok) == effect("copy_to_clipboard", ok) \o <<"on_hide">>

\* do_confirm of a delegate: the callback runs when an item is selected
do_confirm(d, items, callback) ==
    IF selected_item(d, items) = None THEN <<>> ELSE callback

selected_submenu_any_id(id) ==
    LET item == selected_item(list_state, MainItems)
    IN  /\ item # None
        /\ is_submenu(unwrap(item))

\* The item a confirm in the main view acts on is the submenu called id
selected_submenu(id) ==
    LET item == selected_item(list_state, MainItems)
    IN  /\ item # None
        /\ is_submenu(unwrap(item))
        /\ unwrap(item).id = id

\* LauncherView::confirm
Confirm ==
    /\ \/ /\ view_mode = "Main"
          /\ selected_submenu("submenu-emojis")
          /\ enter_emoji_mode
          /\ events' = <<>>
       \/ /\ view_mode = "Main"
          /\ selected_submenu("submenu-clipboard")
          /\ enter_clipboard_mode
          /\ events' = <<>>
       \/ /\ view_mode = "Main"
          /\ ~selected_submenu("submenu-emojis")
          /\ ~selected_submenu("submenu-clipboard")
          /\ \E ok \in BOOLEAN :
                events' = IF selected_item(list_state, MainItems) = None THEN <<>>
                          ELSE on_confirm(unwrap(selected_item(list_state, MainItems)), ok)
          /\ Stay
       \/ /\ view_mode = "EmojiPicker"
          /\ \E ok \in BOOLEAN :
                events' = IF emoji_list_state = None THEN <<>>
                          ELSE do_confirm(deref(emoji_list_state), Emojis, on_select(ok))
          /\ Stay
       \/ /\ view_mode = "ClipboardHistory"
          /\ \E ok \in BOOLEAN :
                events' = IF clipboard_list_state = None THEN <<>>
                          ELSE do_confirm(deref(clipboard_list_state),
                                          ClipboardHistory, on_select(ok))
          /\ Stay
    /\ scroll_target' = None
    /\ UNCHANGED <<set_value_emits, filter_vars, pure_vars>>

Cancel_resets_main ==
    /\ \/ /\ view_mode = "Main"
          /\ events' = <<"on_hide">>
          /\ list_state' = clear_query_to(list_state, MainUnfiltered)
          /\ UNCHANGED <<view_mode, entities, emoji_list_state, clipboard_list_state,
                         input_value, placeholder, tasks, search_task, raced,
                         view_source>>
       \/ view_mode = "EmojiPicker" /\ exit_emoji_mode /\ events' = <<>>
       \/ view_mode = "ClipboardHistory" /\ exit_clipboard_mode /\ events' = <<>>
    /\ scroll_target' = None
    /\ UNCHANGED <<set_value_emits, filter_vars, pure_vars>>

\* LauncherView::cancel
Cancel ==
    /\ \/ view_mode = "Main" /\ events' = <<"on_hide">> /\ Stay
       \/ view_mode = "EmojiPicker" /\ exit_emoji_mode /\ events' = <<>>
       \/ view_mode = "ClipboardHistory" /\ exit_clipboard_mode /\ events' = <<>>
    /\ scroll_target' = None
    /\ UNCHANGED <<set_value_emits, filter_vars, pure_vars>>

GoBack_ignores_input ==
    /\ \/ view_mode = "EmojiPicker" /\ exit_emoji_mode
       \/ view_mode = "ClipboardHistory" /\ exit_clipboard_mode
       \/ view_mode = "Main" /\ Stay
    /\ scroll_target' = None
    /\ events' = <<>>
    /\ UNCHANGED <<set_value_emits, filter_vars, pure_vars>>

\* LauncherView::go_back
GoBack ==
    /\ \/ /\ view_mode = "EmojiPicker"
          /\ IF input_value = <<>> THEN exit_emoji_mode ELSE Stay
       \/ /\ view_mode = "ClipboardHistory"
          /\ IF input_value = <<>> THEN exit_clipboard_mode ELSE Stay
       \/ view_mode = "Main" /\ Stay
    /\ scroll_target' = None
    /\ events' = <<>>
    /\ UNCHANGED <<set_value_emits, filter_vars, pure_vars>>

BackButton_to_other_mode ==
    /\ view_mode \in {"EmojiPicker", "ClipboardHistory"}
    /\ view_mode' = IF view_mode = "EmojiPicker" THEN "ClipboardHistory"
                    ELSE "EmojiPicker"
    /\ scroll_target' = None
    /\ events' = <<>>
    /\ UNCHANGED <<list_state, entities, emoji_list_state, clipboard_list_state,
                   input_value, placeholder, tasks, search_task, raced, view_source,
                   set_value_emits, filter_vars, pure_vars>>

\* The back button LauncherView::render shows in the sub-modes
BackButton ==
    /\ \/ view_mode = "EmojiPicker" /\ exit_emoji_mode
       \/ view_mode = "ClipboardHistory" /\ exit_clipboard_mode
    /\ scroll_target' = None
    /\ events' = <<>>
    /\ UNCHANGED <<set_value_emits, filter_vars, pure_vars>>

-----------------------------------------------------------------------------
(* The launcher as a whole *)

Init ==
    /\ InitLauncher
    /\ f_items = <<>>
    /\ f_query = <<>>
    /\ f_view = None
    /\ f_probe = None
    /\ f_stale = None
    /\ InitPure

Next ==
    \/ InputChange
    \/ WorkerFinish
    \/ ApplyResults
    \/ SelectNext
    \/ SelectPrev
    \/ SelectTab
    \/ SelectTabPrev
    \/ Confirm
    \/ Cancel
    \/ GoBack
    \/ BackButton
    \/ ResetSearch

Spec == Init /\ [][Next]_vars

\* The launcher with both executors running what was spawned on them: the
\* background executor finishes a pending filter, the foreground executor
\* resumes a task whose filter result is ready
SpecLive ==
    /\ Init
    /\ [][Next]_vars
    /\ WF_vars(WorkerFinish)
    /\ WF_vars(ApplyResults)

-----------------------------------------------------------------------------
(* The filter engine and the index mappings on item collections of every     *)
(* shape: a delegate is built over f_items, f_query is filtered into it, and *)
(* one global index of the view is mapped to (section, row) and back         *)

\* The items collections are drawn from
FilterPool == { Item("Application", "app-firefox", <<"F", "i">>),
                Item("Application", "app-files", <<"e", "F">>),
                Item("Window", "window-terminal", <<"T", "e">>),
                Item("Calculator", "calculator", <<"2">>),
                Item("Submenu", "submenu-emojis", <<"E", "f">>),
                Item("Action", "action-shutdown", <<"S", "e">>),
                Item("Search", "search-google-f", <<"S", "f">>) }

\* The queries filtered for
FilterQueries == {<<>>, <<"f">>, <<"e">>, <<"F", "i">>}

InitFilter ==
    /\ InitLauncher
    /\ set_value_emits = FALSE
    /\ f_items \in UNION {[1..n -> FilterPool] : n \in 0..MaxItems}
    /\ f_query \in FilterQueries
    /\ f_view = None
    /\ f_probe = None
    /\ f_stale = None
    /\ InitPure

\* set_query_only, filter_items_sync on the worker, then apply_filter_results
FilterItems ==
    /\ f_view = None
    /\ f_view' = Some(apply_filter_results(
                        set_query_only(ItemListDelegate_new(f_items), f_query),
                        f_items, f_query, filter_items_sync(f_items, f_query)))
    /\ UNCHANGED <<f_items, f_query, f_probe, f_stale, launcher_vars, pure_vars>>

\* global_to_section_row of a valid index, then section_row_to_global
MapIndex ==
    /\ f_view # None
    /\ f_probe = None
    /\ f_stale = None
    /\ \E global \in 0..(filtered_count(unwrap(f_view)) - 1) :
          LET info == unwrap(f_view).section_info
              section_row == global_to_section_row(info, global)
          IN  f_probe' = Some([global |-> global,
                               section_row |-> section_row,
                               back |-> section_row_to_global(
                                            info, section_row[1], section_row[2])])
    /\ UNCHANGED <<f_items, f_query, f_view, f_stale, launcher_vars, pure_vars>>

\* The mappings asked for an index kept from an earlier view: a global index
\* or a (section, row) pair that any view of up to MaxItems items may have had
MapStale ==
    /\ f_view # None
    /\ f_probe = None
    /\ f_stale = None
    /\ LET info == unwrap(f_view).section_info
       IN  \/ \E global \in 0..MaxItems :
                 f_stale' = Some([asked |-> <<global>>,
                                  answer |-> global_to_section_row(info, global)])
           \/ \E section \in 0..MaxItems, row \in 0..MaxItems :
                 f_stale' = Some([asked |-> <<section, row>>,
                                  answer |-> <<section_row_to_global(info, section, row)>>])
    /\ UNCHANGED <<f_items, f_query, f_view, f_probe, launcher_vars, pure_vars>>

NextFilter == FilterItems \/ MapIndex \/ MapStale

SpecFilter == InitFilter /\ [][NextFilter]_vars

-----------------------------------------------------------------------------
(* Search items: src/items/search.rs *)

\* Most search items built in one run
MaxSearchItems == 2

\* Names of search providers
ProviderNames == { <<"G">>, <<"g">>, <<"D">>, <<"D", "-", "g">> }

\* Search queries
SearchQueries == { <<>>, <<"x">>, <<"X">>, <<"g", "-", "x">> }

\* str::to_lowercase
str_to_lowercase(text) == [k \in 1..Len(text) |-> to_lowercase(text[k])]

\* SearchItem::new: id is "search-", the provider name in lower case, "-"
\* and the query; name is "Search on " and the provider name
SearchItem_new(provider, query) ==
    [id |-> <<"s", "e", "a", "r", "c", "h", "-">> \o str_to_lowercase(provider)
                \o <<"-">> \o query,
     name |-> <<"Search on ">> \o provider,
     provider |-> provider,
     query |-> query]

\* One more search item is built
NewSearchItem ==
    /\ Len(s_items) < MaxSearchItems
    /\ \E provider \in ProviderNames, query \in SearchQueries :
          s_items' = Append(s_items, SearchItem_new(provider, query))
    /\ UNCHANGED <<c_color, c_text, c_parsed, t_now, t_time, t_label,
                   launcher_vars, filter_vars>>

InitSearch ==
    /\ InitLauncher
    /\ set_value_emits = FALSE
    /\ f_items = <<>>
    /\ f_query = <<>>
    /\ f_view = None
    /\ f_probe = None
    /\ f_stale = None
    /\ InitPure

NextSearch == NewSearchItem

SpecSearch == InitSearch /\ [][NextSearch]_vars

-----------------------------------------------------------------------------
(* Colours of clipboard entries: Color::to_hex and parse_color of            *)
(* src/ui/clipboard/mod.rs. A text is a sequence of characters; "e-acute"    *)
(* and "euro" stand for characters of two and of three bytes in UTF-8        *)

\* Longest text of arbitrary characters given to parse_color
MaxTextLen == 4

\* Largest value of a colour channel, a u8
ChannelMax == 255

\* Bytes a character takes in UTF-8
utf8_len(ch) ==
    CASE ch = "e-acute" -> 2
      [] ch = "euro" -> 3
      [] OTHER -> 1

\* str::len: the length in bytes
RECURSIVE str_len(_)
str_len(text) ==
    IF Len(text) = 0 THEN 0
    ELSE utf8_len(text[1]) + str_len(Tail(text))

\* Byte offset at which character k of text starts (k = Len + 1: the end)
char_offset(text, k) == str_len(SubSeq(text, 1, k - 1))

\* str::is_char_boundary
is_char_boundary(text, at) ==
    \E k \in 1..(Len(text) + 1) : char_offset(text, k) = at

\* &text[from..to]: slicing a str by byte offsets panics unless both offsets
\* are character boundaries in order
str_slice(text, from, to) ==
    IF from <= to /\ is_char_boundary(text, from) /\ is_char_boundary(text, to)
    THEN [ok |-> TRUE,
          text |-> LET first == CHOOSE k \in 1..(Len(text) + 1) :
                                    char_offset(text, k) = from
                       last == CHOOSE k \in 1..(Len(text) + 1) :
                                    char_offset(text, k) = to
                   IN  SubSeq(text, first, last - 1)]
    ELSE [ok |-> FALSE, text |-> <<>>]

\* str::trim, for the one white-space character of the model
RECURSIVE trim(_)
trim(text) ==
    IF Len(text) = 0 THEN text
    ELSE IF text[1] = " " THEN trim(Tail(text))
    ELSE IF text[Len(text)] = " " THEN trim(SubSeq(text, 1, Len(text) - 1))
    ELSE text

\* The digits {:02X} prints
HexDigits == <<"0", "1", "2", "3", "4", "5", "6", "7",
               "8", "9", "A", "B", "C", "D", "E", "F">>

\* The digits from_str_radix also accepts
HexDigitsLower == <<"0", "1", "2", "3", "4", "5", "6", "7",
                    "8", "9", "a", "b", "c", "d", "e", "f">>

\* char::to_digit(radix): the value of a digit, -1 for any other character
to_digit(ch, radix) ==
    IF \E k \in 1..radix : HexDigits[k] = ch
    THEN (CHOOSE k \in 1..radix : HexDigits[k] = ch) - 1
    ELSE IF \E k \in 1..radix : HexDigitsLower[k] = ch
    THEN (CHOOSE k \in 1..radix : HexDigitsLower[k] = ch) - 1
    ELSE -1

\* The value of a run of digits, -1 when a character is no digit
RECURSIVE digits_value(_, _, _)
digits_value(digits, radix, acc) ==
    IF Len(digits) = 0 THEN acc
    ELSE IF to_digit(digits[1], radix) < 0 THEN -1
    ELSE digits_value(Tail(digits), radix, acc * radix + to_digit(digits[1], radix))

\* u8::from_str_radix and str::parse::<u8>: one optional "+", then one or
\* more digits whose value fits a u8
from_str_radix(text, radix) ==
    LET digits == IF Len(text) > 0 /\ text[1] = "+" THEN Tail(text) ELSE text
        value == digits_value(digits, radix, 0)
    IN  IF Len(digits) = 0 \/ value < 0 \/ value > ChannelMax THEN None
        ELSE Some(value)

\* {:02X} of a u8
hex2(n) == <<HexDigits[(n \div 16) + 1], HexDigits[(n % 16) + 1]>>

to_hex_drops_alpha(c) ==
    <<"#">> \o hex2(c.r) \o hex2(c.g) \o hex2(c.b)

\* Color::to_hex
to_hex(c) ==
    IF c.a = ChannelMax
    THEN <<"#">> \o hex2(c.r) \o hex2(c.g) \o hex2(c.b)
    ELSE <<"#">> \o hex2(c.r) \o hex2(c.g) \o hex2(c.b) \o hex2(c.a)

\* One channel of the hex form: the slice, repeated, read as a u8
hex_channel(hex, from, to, times) ==
    LET part == str_slice(hex, from, to)
        value == from_str_radix(IF times = 2 THEN part.text \o part.text
                                ELSE part.text, 16)
    IN  IF ~part.ok THEN [tag |-> "fault", n |-> 0]
        ELSE IF value = None THEN [tag |-> "err", n |-> 0]
        ELSE [tag |-> "ok", n |-> unwrap(value)]

\* What a function that evaluates steps in order returns: a panic at the
\* first step that faults, None at the first that fails, else the colour
in_order(steps, color) ==
    IF \A k \in 1..Len(steps) : steps[k].tag = "ok"
    THEN [fault |-> FALSE, value |-> Some(color)]
    ELSE LET first == CHOOSE k \in 1..Len(steps) :
                          /\ steps[k].tag # "ok"
                          /\ \A l \in 1..(k - 1) : steps[l].tag = "ok"
         IN  [fault |-> steps[first].tag = "fault", value |-> None]

\* str::split(','), each part trimmed
RECURSIVE split_trim(_, _)
split_trim(text, part) ==
    IF Len(text) = 0 THEN <<trim(part)>>
    ELSE IF text[1] = "," THEN <<trim(part)>> \o split_trim(Tail(text), <<>>)
    ELSE split_trim(Tail(text), Append(part, text[1]))

\* str::parse::<f32> on the alpha texts of the model, in quarters
parse_f32 ==
    [text \in { <<"0", ".", "5">>, <<"1">>, <<"2">>, <<"0", ".", "2", "5">>,
                <<"-", "1">> } |->
        CASE text = <<"0", ".", "5">> -> 2
          [] text = <<"1">> -> 4
          [] text = <<"2">> -> 8
          [] text = <<"0", ".", "2", "5">> -> 1
          [] text = <<"-", "1">> -> -4]

\* (alpha * 255.0) as u8: truncated and saturated
alpha_channel(text) ==
    IF text \notin DOMAIN parse_f32 THEN [tag |-> "err", n |-> 0]
    ELSE LET scaled == (parse_f32[text] * ChannelMax) \div 4
         IN  [tag |-> "ok",
              n |-> IF parse_f32[text] < 0 THEN 0
                    ELSE IF scaled > ChannelMax THEN ChannelMax ELSE scaled]

\* One channel of the rgb form: str::parse::<u8>
rgb_channel(text) ==
    LET value == from_str_radix(text, 10)
    IN  IF value = None THEN [tag |-> "err", n |-> 0]
        ELSE [tag |-> "ok", n |-> unwrap(value)]

starts_with(text, prefix) ==
    Len(text) >= Len(prefix) /\ SubSeq(text, 1, Len(prefix)) = prefix

\* The rgb( and rgba( arm of parse_color
parse_rgb(text) ==
    LET start == IF starts_with(text, <<"r", "g", "b", "a", "(">>) THEN 5 ELSE 4
        closing == {k \in 1..Len(text) : text[k] = ")"}
        last == CHOOSE k \in closing : \A l \in closing : l <= k
        values == str_slice(text, start, char_offset(text, last))
        parts == split_trim(values.text, <<>>)
        color(ch) == [r |-> ch[1].n, g |-> ch[2].n, b |-> ch[3].n, a |-> ch[4].n]
    IN  IF closing = {} THEN [fault |-> FALSE, value |-> None]
        ELSE IF ~values.ok THEN [fault |-> TRUE, value |-> None]
        ELSE IF Len(parts) < 3 THEN [fault |-> FALSE, value |-> None]
        ELSE LET steps == << rgb_channel(parts[1]), rgb_channel(parts[2]),
                             rgb_channel(parts[3]),
                             IF Len(parts) >= 4 THEN alpha_channel(parts[4])
                             ELSE [tag |-> "ok", n |-> ChannelMax] >>
             IN  in_order(steps, color(steps))

\* The hex arm of parse_color, hex being the text after "#"; None of the
\* Option when the length is none of 3, 6 and 8 bytes
parse_hex(hex) ==
    LET opaque == [tag |-> "ok", n |-> ChannelMax]
        color(ch) == [r |-> ch[1].n, g |-> ch[2].n, b |-> ch[3].n, a |-> ch[4].n]
        steps == CASE str_len(hex) = 3 ->
                        << hex_channel(hex, 0, 1, 2), hex_channel(hex, 1, 2, 2),
                           hex_channel(hex, 2, 3, 2), opaque >>
                   [] str_len(hex) = 6 ->
                        << hex_channel(hex, 0, 2, 1), hex_channel(hex, 2, 4, 1),
                           hex_channel(hex, 4, 6, 1), opaque >>
                   [] str_len(hex) = 8 ->
                        << hex_channel(hex, 0, 2, 1), hex_channel(hex, 2, 4, 1),
                           hex_channel(hex, 4, 6, 1), hex_channel(hex, 6, 8, 1) >>
                   [] OTHER -> <<>>
    IN  IF steps = <<>> THEN None ELSE Some(in_order(steps, color(steps)))

\* parse_color: fault tells whether the call panicked, value is what it
\* returned otherwise
parse_color(given) ==
    LET text == trim(given)
        hex == IF Len(text) > 0 /\ text[1] = "#" THEN Some(Tail(text)) ELSE None
    IN  IF hex # None /\ parse_hex(unwrap(hex)) # None
        THEN unwrap(parse_hex(unwrap(hex)))
        ELSE IF \/ starts_with(text, <<"r", "g", "b", "(">>)
                \/ starts_with(text, <<"r", "g", "b", "a", "(">>)
        THEN parse_rgb(text)
        ELSE [fault |-> FALSE, value |-> None]

\* The characters of the arbitrary texts
TextAlphabet == {"#", "F", "1", "g", "+", " ", "e-acute", "euro"}

\* Every text of up to MaxTextLen characters
ShortTexts == UNION {[1..n -> TextAlphabet] : n \in 0..MaxTextLen}

\* The channel and the alpha parts of the rgb texts
ChannelParts == { <<"7">>, <<"2", "5", "5">>, <<"2", "5", "6">>, <<" ", "x">> }
AlphaParts == { <<"0", ".", "5">>, <<"1">>, <<"2">>, <<"-", "1">>, <<"x">> }

\* rgb(r,g,b) and rgba(r,g,b,a) texts, some without the closing bracket
RgbTexts ==
    { prefix \o r \o <<",">> \o g \o <<",">> \o b \o rest \o closing :
        prefix \in { <<"r", "g", "b", "(">>, <<"r", "g", "b", "a", "(">> },
        r \in ChannelParts, g \in ChannelParts, b \in ChannelParts,
        rest \in {<<>>} \cup { <<",">> \o a : a \in AlphaParts },
        closing \in { <<")">>, <<>> } }

\* The colours converted and parsed back: one channel takes every value of a
\* u8 while the others take a few
Colors ==
    LET few == {0, 9, 171, ChannelMax}
        all == 0..ChannelMax
    IN  UNION { [r : all, g : few, b : {ChannelMax}, a : {0, ChannelMax}],
                [r : {0}, g : all, b : few, a : {ChannelMax, 128}],
                [r : few, g : {16}, b : all, a : {127, ChannelMax}],
                [r : {ChannelMax}, g : few, b : {0, 15}, a : all] }

InitColor ==
    /\ InitLauncher
    /\ set_value_emits = FALSE
    /\ f_items = <<>>
    /\ f_query = <<>>
    /\ f_view = None
    /\ f_probe = None
    /\ f_stale = None
    /\ s_items = <<>>
    /\ t_now = 0
    /\ t_time = 0
    /\ t_label = None
    /\ c_parsed = None
    /\ \/ c_color = None /\ c_text \in {Some(t) : t \in ShortTexts \cup RgbTexts}
       \/ c_color \in {Some(c) : c \in Colors} /\ c_text = None

\* Color::to_hex of the colour
ToHex ==
    /\ c_color # None
    /\ c_text = None
    /\ c_text' = Some(to_hex(unwrap(c_color)))
    /\ UNCHANGED <<c_color, c_parsed, s_items, t_now, t_time, t_label,
                   launcher_vars, filter_vars>>

\* parse_color of the text
ParseColor ==
    /\ c_text # None
    /\ c_parsed = None
    /\ c_parsed' = Some(parse_color(unwrap(c_text)))
    /\ UNCHANGED <<c_color, c_text, s_items, t_now, t_time, t_label,
                   launcher_vars, filter_vars>>

NextColor == ToHex \/ ParseColor

SpecColor == InitColor /\ [][NextColor]_vars

-----------------------------------------------------------------------------
(* Age of clipboard entries: format_timestamp of src/ui/clipboard/mod.rs.    *)
(* Times are whole seconds; a formatted text is a sequence of its pieces     *)

\* Seconds an entry may lie in the future, and beyond a day in the past
MaxSkew == 2

\* The thresholds of format_timestamp, in seconds
Minute == 60
Hour == 3600
Day == 86400

\* {} of an unsigned integer: its decimal digits
RECURSIVE to_decimal(_)
to_decimal(n) ==
    IF n < 10 THEN <<HexDigits[n + 1]>>
    ELSE to_decimal(n \div 10) \o <<HexDigits[(n % 10) + 1]>>

format_timestamp_plural_from_one(now, time) ==
    LET secs == now - time
        mins == secs \div Minute
        hours == secs \div Hour
    IN  IF time > now THEN <<"Earlier">>
        ELSE IF secs < Minute THEN <<"Just now">>
        ELSE IF secs < Hour
        THEN to_decimal(mins) \o <<" min">>
                \o (IF mins >= 1 THEN <<"s">> ELSE <<>>) \o <<" ago">>
        ELSE IF secs < Day
        THEN to_decimal(hours) \o <<" hour">>
                \o (IF hours >= 1 THEN <<"s">> ELSE <<>>) \o <<" ago">>
        ELSE <<"Earlier">>

\* format_timestamp, now being what SystemTime::now() returns: duration_since
\* fails for a time after now
format_timestamp(now, time) ==
    LET secs == now - time
        mins == secs \div Minute
        hours == secs \div Hour
    IN  IF time > now THEN <<"Earlier">>
        ELSE IF secs < Minute THEN <<"Just now">>
        ELSE IF secs < Hour
        THEN to_decimal(mins) \o <<" min">>
                \o (IF mins > 1 THEN <<"s">> ELSE <<>>) \o <<" ago">>
        ELSE IF secs < Day
        THEN to_decimal(hours) \o <<" hour">>
                \o (IF hours > 1 THEN <<"s">> ELSE <<>>) \o <<" ago">>
        ELSE <<"Earlier">>

InitTime ==
    /\ InitLauncher
    /\ set_value_emits = FALSE
    /\ f_items = <<>>
    /\ f_query = <<>>
    /\ f_view = None
    /\ f_probe = None
    /\ f_stale = None
    /\ s_items = <<>>
    /\ c_color = None
    /\ c_text = None
    /\ c_parsed = None
    /\ t_now = Day + MaxSkew
    /\ t_time \in 0..(Day + 2 * MaxSkew)
    /\ t_label = None

\* format_timestamp of the time of the entry
FormatTimestamp ==
    /\ t_label = None
    /\ t_label' = Some(format_timestamp(t_now, t_time))
    /\ UNCHANGED <<t_now, t_time, s_items, c_color, c_text, c_parsed,
                   launcher_vars, filter_vars>>

NextTime == FormatTimestamp

SpecTime == InitTime /\ [][NextTime]_vars

-----------------------------------------------------------------------------
(* Properties of the launcher *)

\* C1: a request issued in the main view while the task of the request before
\* it was still alive wins: the view never shows the result of a superseded
\* request, and once no task is left the view is the filter result of the
\* text typed last, put there by the task of the latest request.
C1_GenerationGuard ==
    /\ view_source # "superseded"
    /\ (view_mode = "Main" /\ raced /\ tasks = {}) =>
          /\ view_source = "latest"
          /\ list_state.query = input_value
          /\ list_state.filtered_indices = filter_items_sync(MainItems, input_value)

\* Two requests raced, the second for "f", and its result is what is shown
C1_Witness ==
    /\ view_mode = "Main" /\ raced /\ tasks = {}
    /\ view_source = "latest"
    /\ input_value = <<"f">>
    /\ filtered_count(list_state) = 4

\* C2: a task that applies its result is the one _search_task holds, the task
\* of the most recent request; a step of any other task leaves the main
\* delegate, view and cursor, as it was.
C2_OnlyLatestApplied ==
    [][\A t \in tasks :
          ApplyTask(t) => (t.id = search_task \/ list_state' = list_state)]_vars

\* The latest request's result was applied after the cursor had been moved
C2_Witness ==
    /\ view_source = "latest"
    /\ list_state.query = <<"f">>
    /\ list_state.filtered_indices = MainFiltered[<<"f">>]
    /\ list_state.selected_index = Some(0)
    /\ ~raced

\* The cursor of a delegate is None when its view is empty, else a valid index
cursor_valid(d) ==
    IF filtered_count(d) = 0 THEN d.selected_index = None
    ELSE d.selected_index # None /\ unwrap(d.selected_index) < filtered_count(d)

\* C3: the cursor of the main delegate and of every sub-mode delegate is None
\* only when the filtered view is empty, and else an index below the count.
C3_CursorInvariant ==
    /\ cursor_valid(list_state)
    /\ \A e \in 1..Len(entities) : cursor_valid(entities[e])

\* The main view is empty with no cursor, and the emoji cursor has been moved
\* to the last of the two emojis that match
C3_Witness ==
    /\ filtered_count(list_state) = 0
    /\ list_state.selected_index = None
    /\ emoji_list_state # None
    /\ filtered_count(deref(emoji_list_state)) = 2
    /\ deref(emoji_list_state).selected_index = Some(1)

\* next_index applied n times to current
RECURSIVE next_times(_, _, _)
next_times(n, current, count) ==
    IF n = 0 THEN current
    ELSE next_index(next_times(n - 1, current, count), count)

\* C4: in the main view with N >= 1 items, next from index N-1 selects 0,
\* previous from index 0 selects N-1, and N times next from 0 is back at 0.
C4_SelectionWraps ==
    [][LET N == filtered_count(list_state)
       IN  (view_mode = "Main" /\ N >= 1) =>
              /\ next_times(N, 0, N) = 0
              /\ (SelectNext /\ list_state.selected_index = Some(N - 1))
                    => list_state'.selected_index = Some(0)
              /\ (SelectPrev /\ list_state.selected_index = Some(0))
                    => list_state'.selected_index = Some(N - 1)]_vars

\* Navigation has put the cursor on the last of the eight items
C4_Witness ==
    /\ view_mode = "Main"
    /\ filtered_count(list_state) = 8
    /\ list_state.selected_index = Some(7)
    /\ scroll_target = Some(<<4, 0>>)

\* C5: a valid global index mapped to (section, row) and back is itself, and
\* the section it is mapped to carries the label of the item at that index.
C5_RoundTrip ==
    f_probe # None =>
        LET probe == unwrap(f_probe)
            view == unwrap(f_view)
            item == f_items[view.filtered_indices[probe.global + 1] + 1]
        IN  /\ probe.back = probe.global
            /\ view.section_info[probe.section_row[1] + 1].name = section_name(item)

\* The index mapped is the second row of the second section
C5_Witness ==
    /\ f_probe # None
    /\ unwrap(f_probe).section_row = <<1, 1>>
    /\ unwrap(f_probe).global = 2

\* The sections of a delegate tile its view: each starts where the one before
\* ends, the last ends at the count, no label occurs twice, and every position
\* of a section holds an item of the section's label
sections_partition(d, items) ==
    LET info == d.section_info
    IN  /\ covered(info) = filtered_count(d)
        /\ \A s \in 1..Len(info) :
              /\ info[s].count >= 1
              /\ info[s].start = IF s = 1 THEN 0
                                 ELSE info[s - 1].start + info[s - 1].count
              /\ \A t \in 1..Len(info) : info[t].name = info[s].name => t = s
              /\ \A g \in info[s].start..(info[s].start + info[s].count - 1) :
                    section_name(items[d.filtered_indices[g + 1] + 1]) = info[s].name

\* C6: for a non-empty collection and the empty query the view holds every
\* index once, ordered by (sort priority, index), and the sections tile it.
C6_EmptyQuery ==
    (f_view # None /\ f_query = <<>> /\ Len(f_items) >= 1) =>
        LET d == unwrap(f_view)
            at(k) == d.filtered_indices[k]
        IN  /\ filtered_count(d) = Len(f_items)
            /\ {at(k) : k \in 1..filtered_count(d)} = 0..(Len(f_items) - 1)
            /\ \A k, l \in 1..filtered_count(d) :
                  k < l =>
                     \/ sort_priority(f_items[at(k) + 1]) < sort_priority(f_items[at(l) + 1])
                     \/ /\ sort_priority(f_items[at(k) + 1]) = sort_priority(f_items[at(l) + 1])
                        /\ at(k) < at(l)
            /\ sections_partition(d, f_items)

\* Three items of three sections given in reverse priority order were sorted
C6_Witness ==
    /\ f_view # None /\ f_query = <<>>
    /\ Len(f_items) = 3
    /\ f_items[1].kind = "Application"
    /\ f_items[2].kind = "Action"
    /\ f_items[3].kind = "Calculator"
    /\ unwrap(f_view).filtered_indices = <<2, 1, 0>>

\* Priority of a section label
section_priority(label) ==
    CASE label = "Calculator" -> 0
      [] label = "Search" -> 1
      [] label = "Windows" -> 2
      [] label = "Commands" -> 3
      [] label = "Applications" -> 4

\* query is, case-insensitively, a subsequence of name
is_subsequence(query, name) ==
    \E at \in [1..Len(query) -> 1..Len(name)] :
        /\ \A k \in 1..Len(query) : to_lowercase(name[at[k]]) = to_lowercase(query[k])
        /\ \A k, l \in 1..Len(query) : k < l => at[k] < at[l]

\* C7: for a non-empty query the view holds exactly the indices of the items
\* whose name matches, each once, by ascending section priority, then
\* descending score, then ascending index.
C7_NonEmptyQuery ==
    (f_view # None /\ f_query # <<>>) =>
        LET d == unwrap(f_view)
            at(k) == d.filtered_indices[k]
            prio(k) == section_priority(section_name(f_items[at(k) + 1]))
            score(k) == unwrap(fuzzy_match(f_items[at(k) + 1].name, f_query))
        IN  /\ {at(k) : k \in 1..filtered_count(d)} =
                  {i \in 0..(Len(f_items) - 1) : is_subsequence(f_query, f_items[i + 1].name)}
            /\ \A k, l \in 1..filtered_count(d) : k # l => at(k) # at(l)
            /\ \A k, l \in 1..filtered_count(d) :
                  k < l =>
                     \/ prio(k) < prio(l)
                     \/ prio(k) = prio(l) /\ score(k) > score(l)
                     \/ prio(k) = prio(l) /\ score(k) = score(l) /\ at(k) < at(l)

\* Of two applications matching "f" the later one, the better match, comes
\* first, and the window, which does not match, is not in the view
C7_Witness ==
    /\ f_view # None /\ f_query = <<"f">>
    /\ Len(f_items) = 3
    /\ f_items[1].id = "app-files"
    /\ f_items[2].id = "window-terminal"
    /\ f_items[3].id = "app-firefox"
    /\ unwrap(f_view).filtered_indices = <<2, 0>>

\* C8: a confirm in the main view on the submenu "submenu-emojis" moves the
\* mode to EmojiPicker, and the emoji delegate the view then holds, as well as
\* the input, has an empty query.
C8_EnterEmoji ==
    [][(view_mode = "Main" /\ selected_submenu("submenu-emojis") /\ Confirm) =>
          /\ view_mode' = "EmojiPicker"
          /\ emoji_list_state' # None
          /\ entities'[unwrap(emoji_list_state')].query = <<>>
          /\ input_value' = <<>>]_vars

\* The emoji picker was entered after "f" had been typed in the main view
C8_Witness ==
    /\ view_mode = "EmojiPicker"
    /\ emoji_list_state # None
    /\ deref(emoji_list_state) = EmojiGridDelegate_new
    /\ input_value = <<>>
    /\ list_state.filtered_indices = MainFiltered[<<"f">>]

\* C9: a confirm in the main view on the submenu "submenu-clipboard" moves the
\* mode to ClipboardHistory with a delegate made in that step, empties the
\* input, and runs neither the confirm callback nor on_hide.
C9_EnterClipboard ==
    [][(view_mode = "Main" /\ selected_submenu("submenu-clipboard") /\ Confirm) =>
          /\ view_mode' = "ClipboardHistory"
          /\ clipboard_list_state' = Some(Len(entities) + 1)
          /\ Len(entities') = Len(entities) + 1
          /\ entities'[Len(entities')] = ClipboardListDelegate_new
          /\ input_value' = <<>>
          /\ events' = <<>>]_vars

\* The clipboard history was entered after "f" had been typed in the main view
C9_Witness ==
    /\ view_mode = "ClipboardHistory"
    /\ clipboard_list_state # None
    /\ deref(clipboard_list_state) = ClipboardListDelegate_new
    /\ input_value = <<>>
    /\ events = <<>>
    /\ list_state.filtered_indices = MainFiltered[<<"f">>]

C11_BackAction ==
    [][(view_mode \in {"EmojiPicker", "ClipboardHistory"} /\ GoBack) =>
          IF input_value = <<>>
          THEN view_mode' = "Main"
          ELSE UNCHANGED <<view_mode, list_state, entities, emoji_list_state,
                           clipboard_list_state, input_value>>]_vars

\* The clipboard history was left with an empty input after its cursor had
\* been moved to the second entry
C11_Witness ==
    /\ view_mode = "Main"
    /\ clipboard_list_state = None /\ emoji_list_state = None
    /\ Len(entities) >= 1
    /\ entities[Len(entities)].kind = "clipboard"
    /\ entities[Len(entities)].query = <<>>
    /\ entities[Len(entities)].selected_index = Some(1)

\* The external calls an item action consists of
ActionNames == {"launch_application", "focus_window", "copy_to_clipboard",
                "execute", "xdg-open"}

\* The external call that is the action of an item of the main view
item_action(item) ==
    CASE item.kind = "Application" -> "launch_application"
      [] item.kind = "Window" -> "focus_window"
      [] item.kind = "Calculator" -> "copy_to_clipboard"
      [] item.kind = "Action" -> "execute"
      [] item.kind = "Search" -> "xdg-open"

\* The effects evs are: the call name, once and first, and on_hide, once and last
acts_then_hides(evs, name) ==
    /\ Len(evs) >= 2
    /\ evs[1] = name
    /\ evs[Len(evs)] = "on_hide"
    /\ \A k \in 2..Len(evs) : evs[k] \notin ActionNames
    /\ \A k \in 1..(Len(evs) - 1) : evs[k] # "on_hide"

\* C12: a confirm on a selected item that is no submenu, in any mode, makes
\* the item's own external call exactly once and after it runs on_hide once.
C12_ConfirmActsThenHides ==
    [][Confirm =>
          /\ (/\ view_mode = "Main"
              /\ selected_item(list_state, MainItems) # None
              /\ ~is_submenu(unwrap(selected_item(list_state, MainItems))))
                => acts_then_hides(events',
                       item_action(unwrap(selected_item(list_state, MainItems))))
          /\ (/\ view_mode = "EmojiPicker"
              /\ selected_item(deref(emoji_list_state), Emojis) # None)
                => acts_then_hides(events', "copy_to_clipboard")
          /\ (/\ view_mode = "ClipboardHistory"
              /\ selected_item(deref(clipboard_list_state), ClipboardHistory) # None)
                => acts_then_hides(events', "copy_to_clipboard")]_vars

\* The action of the main view's search shortcut was confirmed and succeeded
C12_Witness ==
    /\ view_mode = "Main"
    /\ events = <<"xdg-open", "on_hide">>
    /\ list_state.selected_index = Some(1)

\* C13: when a task applies a result for the query the main delegate holds,
\* the filtered view becomes that result and the cursor becomes index 0 for a
\* non-empty result and None for an empty one, wherever the cursor was.
C13_ApplyResetsCursor ==
    [][\A t \in tasks :
          (ApplyTask(t) /\ is_current(list_state, t.query)) =>
              /\ t.result = MainFiltered[t.query]
              /\ list_state'.filtered_indices = t.result
              /\ covered(list_state'.section_info) = Len(t.result)
              /\ list_state'.selected_index =
                    IF t.result = <<>> THEN None ELSE Some(0)]_vars

\* The empty result for "z" was applied: nothing is shown, nothing selected
C13_Witness ==
    /\ view_mode = "Main"
    /\ view_source = "latest"
    /\ list_state.query = <<"z">>
    /\ list_state.filtered_indices = <<>>
    /\ list_state.selected_index = None
    /\ tasks = {}

\* C14: a keystroke in the main view records the text in the main delegate in
\* the same step and leaves its filtered view, section boundaries and cursor
\* as they were; the background computation leaves the delegate alone too.
C14_KeystrokeFrame ==
    [][/\ (view_mode = "Main" /\ InputChange) =>
             /\ list_state'.query = input_value'
             /\ list_state'.filtered_indices = list_state.filtered_indices
             /\ list_state'.section_info = list_state.section_info
             /\ list_state'.selected_index = list_state.selected_index
       /\ WorkerFinish => list_state' = list_state]_vars

\* "f" was typed with the cursor on the fourth of the eight items, and the
\* view still shows the eight
C14_Witness ==
    /\ view_mode = "Main"
    /\ list_state.query = <<"f">>
    /\ input_value = <<"f">>
    /\ filtered_count(list_state) = 8
    /\ list_state.selected_index = Some(3)
    /\ \E t \in tasks : t.id = search_task /\ t.state = "computed"

\* The main delegate shows the whole collection under the empty query
shows_full_list(d) ==
    /\ d.query = <<>>
    /\ d.filtered_indices = MainUnfiltered.filtered_indices
    /\ d.section_info = MainUnfiltered.section_info
    /\ filtered_count(d) = Len(MainItems)

\* C15: the main delegate always holds the items it was built with; right
\* after any step from EmojiPicker or ClipboardHistory to Main its query is
\* empty, as is the input, and its view is the whole list, and a task that
\* applies its result while that is so leaves query and view as they are.
C15_MainControllerKept ==
    [][/\ list_state.items = MainItems
       /\ list_state'.items = MainItems
       /\ (view_mode \in {"EmojiPicker", "ClipboardHistory"} /\ view_mode' = "Main") =>
             /\ shows_full_list(list_state')
             /\ input_value' = <<>>
       /\ \A t \in tasks :
             (view_mode = "Main" /\ input_value = <<>> /\ shows_full_list(list_state)
                /\ ApplyTask(t)) => shows_full_list(list_state')]_vars

\* The clipboard history was left while the main delegate's request for "f",
\* made by a keystroke in the sub-mode, had its result ready: the result is
\* not applied to the list the exit restored
C15_Witness ==
    /\ view_mode = "Main"
    /\ clipboard_list_state = None
    /\ Len(entities) >= 1
    /\ entities[Len(entities)].kind = "clipboard"
    /\ shows_full_list(list_state)
    /\ \E t \in tasks : t.query = <<"f">> /\ t.state = "computed"

\* The (priority, section) pair the claim gives for each variant
PrioritySection ==
    [kind \in ListItem |->
        CASE kind = "Calculator" -> <<0, "Calculator">>
          [] kind = "Search" -> <<1, "Search">>
          [] kind = "Window" -> <<2, "Windows">>
          [] kind = "Submenu" -> <<3, "Commands">>
          [] kind = "Action" -> <<3, "Commands">>
          [] kind = "Application" -> <<4, "Applications">>]

\* C16: every item has the (priority, section) pair of its variant, and two
\* items have the same priority exactly when they have the same section label.
C16_PriorityTable ==
    /\ \A i \in 1..Len(f_items) :
          <<sort_priority(f_items[i]), section_name(f_items[i])>> =
              PrioritySection[f_items[i].kind]
    /\ \A i, j \in 1..Len(f_items) :
          (sort_priority(f_items[i]) = sort_priority(f_items[j]))
             <=> (section_name(f_items[i]) = section_name(f_items[j]))

\* A submenu and an action, of one priority and one section, and an
\* application were sorted and put into sections
C16_Witness ==
    /\ f_view # None
    /\ Len(f_items) = 3
    /\ f_items[1].kind = "Application"
    /\ f_items[2].kind = "Action"
    /\ f_items[3].kind = "Submenu"
    /\ Len(unwrap(f_view).section_info) = 2
    /\ unwrap(f_view).filtered_indices = <<1, 2, 0>>

\* The delegate of the current mode
active_delegate ==
    CASE view_mode = "Main" -> list_state
      [] view_mode = "EmojiPicker" -> deref(emoji_list_state)
      [] view_mode = "ClipboardHistory" -> deref(clipboard_list_state)

\* C17: while the filtered view of the current mode is empty its cursor is
\* None, and next, previous, Tab, Shift-Tab and confirm change no delegate,
\* no handle and no mode, make no external call and do not run on_hide.
C17_EmptyViewNoOps ==
    [][filtered_count(active_delegate) = 0 =>
          /\ active_delegate.selected_index = None
          /\ (SelectNext \/ SelectPrev \/ SelectTab \/ SelectTabPrev \/ Confirm) =>
                /\ events' = <<>>
                /\ UNCHANGED <<view_mode, list_state, entities, emoji_list_state,
                               clipboard_list_state, input_value, placeholder,
                               tasks, search_task>>]_vars

\* In the emoji picker "z" matches no emoji, and no item of the main list
C17_Witness ==
    /\ view_mode = "EmojiPicker"
    /\ emoji_list_state # None
    /\ deref(emoji_list_state).query = <<"z">>
    /\ filtered_count(deref(emoji_list_state)) = 0
    /\ deref(emoji_list_state).selected_index = None
    /\ filtered_count(list_state) = 0
    /\ events = <<>>

\* The effects evs without the warnings
RECURSIVE without_warn(_)
without_warn(evs) ==
    IF evs = <<>> THEN <<>>
    ELSE IF evs[1] = "warn" THEN without_warn(Tail(evs))
    ELSE <<evs[1]>> \o without_warn(Tail(evs))

\* The external call a confirm in the current mode makes: none when nothing
\* is selected or, in the main view, a submenu is
confirmed_action ==
    LET items == CASE view_mode = "Main" -> MainItems
                   [] view_mode = "EmojiPicker" -> Emojis
                   [] view_mode = "ClipboardHistory" -> ClipboardHistory
        item == selected_item(active_delegate, items)
    IN  IF item = None THEN None
        ELSE IF view_mode # "Main" THEN Some("copy_to_clipboard")
        ELSE IF is_submenu(unwrap(item)) THEN None
        ELSE Some(item_action(unwrap(item)))

\* C18: whether the external call of a confirmed item fails or not, it is
\* made once, on_hide runs once after it, and the mode, the delegates and the
\* handles are left as a successful confirm leaves them, that is, untouched.
C18_FailureStillHides ==
    [][(Confirm /\ confirmed_action # None) =>
          /\ without_warn(events') = <<unwrap(confirmed_action), "on_hide">>
          /\ Len(events') <= 3
          /\ UNCHANGED <<view_mode, list_state, entities, emoji_list_state,
                         clipboard_list_state, input_value, placeholder,
                         tasks, search_task>>]_vars

\* The copy of the selected clipboard entry failed, and on_hide ran
C18_Witness ==
    /\ view_mode = "ClipboardHistory"
    /\ events = <<"copy_to_clipboard", "warn", "on_hide">>
    /\ clipboard_list_state # None

\* C19: a keystroke is forwarded to the delegate of the current mode only:
\* in EmojiPicker or ClipboardHistory it changes neither the query nor the
\* view of the main delegate and starts no filter task for it.
C19_KeystrokeToActiveOnly ==
    [][(view_mode \in {"EmojiPicker", "ClipboardHistory"} /\ InputChange) =>
          /\ list_state' = list_state
          /\ tasks' = tasks
          /\ search_task' = search_task]_vars

\* C20: a sub-mode delegate is torn down on exit: a keystroke changes no
\* delegate the view holds no handle to, and changes at most one sub-mode
\* delegate however many visits there were.
C20_TornDownOnExit ==
    [][InputChange =>
          /\ \A e \in 1..Len(entities) :
                (emoji_list_state # Some(e) /\ clipboard_list_state # Some(e))
                   => entities'[e] = entities[e]
          /\ Cardinality({e \in 1..Len(entities) : entities'[e] # entities[e]}) <= 1]_vars

\* C21: staleness is handled by discarding results, not by preemption: a
\* filter computation that is pending stays in flight, whatever request is
\* issued meanwhile, until it has run to completion.
C21_NoPreemption ==
    [][\A t \in tasks :
          t.state = "pending" =>
             \E u \in tasks' :
                /\ u.id = t.id
                /\ u.query = t.query
                /\ u.state \in {"pending", "computed"}]_vars

\* C22: in every mode the filtering a keystroke triggers runs in the worker:
\* the step that handles the keystroke replaces the filtered view of no
\* delegate, and the worker's step changes no delegate.
C22_FilterInWorker ==
    [][/\ InputChange =>
             /\ list_state'.filtered_indices = list_state.filtered_indices
             /\ \A e \in 1..Len(entities) :
                   entities'[e].filtered_indices = entities[e].filtered_indices
       /\ WorkerFinish => (list_state' = list_state /\ entities' = entities)]_vars

\* C23: the items a filter task captured when it was dispatched are, as long
\* as the task is alive, the items of the main delegate it was dispatched for,
\* and the result the worker delivers is the filter result on those items.
C23_SnapshotUnchanged ==
    \A t \in tasks :
        /\ t.items = list_state.items
        /\ t.items = MainItems
        /\ t.state = "computed" => t.result = MainFiltered[t.query]

\* A request for "f" made in the main view was computed after the cursor had
\* been moved and the emoji picker entered
C23_Witness ==
    /\ view_mode = "EmojiPicker"
    /\ emoji_list_state # None
    /\ deref(emoji_list_state).query = <<>>
    /\ list_state.query = <<"f">>
    /\ list_state.selected_index = Some(4)
    /\ \E t \in tasks : t.query = <<"f">> /\ t.state = "computed" /\ t.items = MainItems

\* C24: with the executors scheduled fairly, whenever the mode is Main and
\* the input holds q, the main view eventually is the filter result for q
\* unless a keystroke changes the input or the mode is left; and a main view
\* that is the filter result for the input stays so over every step that
\* neither changes the input nor leaves Main.
C24_EventuallyFiltered ==
    /\ \A q \in Queries :
          (view_mode = "Main" /\ input_value = q)
             ~> \/ list_state.filtered_indices = MainFiltered[q]
                \/ input_value # q
                \/ view_mode # "Main"
    /\ [][(/\ view_mode = "Main" /\ view_mode' = "Main"
           /\ input_value' = input_value
           /\ list_state.filtered_indices = MainFiltered[input_value])
             => list_state'.filtered_indices = MainFiltered[input_value]]_vars

\* The result for "f" was applied and the cursor then moved within it
C24_Witness ==
    /\ view_mode = "Main"
    /\ input_value = <<"f">>
    /\ list_state.query = <<"f">>
    /\ list_state.filtered_indices = MainFiltered[<<"f">>]
    /\ list_state.selected_index = Some(2)
    /\ tasks = {}
    /\ view_source = "latest"

\* Two delegates agree in the query, the filtered view and the cursor
same_view(a, b) ==
    /\ a.query = b.query
    /\ a.filtered_indices = b.filtered_indices
    /\ a.selected_index = b.selected_index

\* The step leaves every delegate but that of the current mode as it was
others_kept ==
    /\ view_mode # "Main" => same_view(list_state', list_state)
    /\ \A e \in 1..Len(entities) :
          (emoji_list_state # Some(e) /\ clipboard_list_state # Some(e))
             => same_view(entities'[e], entities[e])

C26_TabIsNext ==
    [][/\ SelectTab <=> SelectNext
       /\ SelectTabPrev <=> SelectPrev]_vars

\* The clipboard cursor was stepped to the second entry, entered from the
\* main cursor stepped to the clipboard submenu
C26_Witness ==
    /\ view_mode = "ClipboardHistory"
    /\ clipboard_list_state # None
    /\ deref(clipboard_list_state).selected_index = Some(1)
    /\ scroll_target = Some(<<1>>)
    /\ input_value = <<>>
    /\ list_state.selected_index = Some(5)

\* C27: in EmojiPicker the next and the previous action (the down and the up
\* key) move the flat selection index by +1 and -1 modulo the number of
\* filtered emojis, and the grid scrolls to row index / width.
C27_EmojiLinearStep ==
    [][(view_mode = "EmojiPicker" /\ emoji_list_state # None) =>
          LET d == deref(emoji_list_state)
              after == entities'[unwrap(emoji_list_state)]
              n == Len(d.filtered_indices)
              current == unwrap_or(d.selected_index, 0)
              moved(to) == /\ after = [d EXCEPT !.selected_index = Some(to)]
                           /\ scroll_target' = Some(<<to \div GridColumns>>)
          IN  /\ (SelectNext /\ n > 0) => moved((current + 1) % n)
              /\ (SelectPrev /\ n > 0) => moved((current + n - 1) % n)
              /\ ((SelectNext \/ SelectPrev) /\ n = 0) => after = d]_vars

\* The emoji cursor stands on the last of the three emojis, in the second
\* row of the grid, and the main list is the unfiltered one
C27_Witness ==
    /\ view_mode = "EmojiPicker"
    /\ emoji_list_state # None
    /\ Len(deref(emoji_list_state).filtered_indices) = 3
    /\ deref(emoji_list_state).selected_index = Some(2)
    /\ scroll_target = Some(<<1>>)
    /\ list_state.query = <<>>
    /\ list_state.selected_index = Some(4)

\* C28: a cancel action in Main invokes the cancel callback, which signals
\* hide, and leaves the mode, the query, the filtered view, the cursor and
\* every other field of the view as they were.
C28_CancelMainHides ==
    [][(view_mode = "Main" /\ Cancel) =>
          /\ events' = <<"on_hide">>
          /\ UNCHANGED <<view_mode, list_state, entities, emoji_list_state,
                         clipboard_list_state, input_value, placeholder, tasks,
                         search_task>>]_vars

\* Hide was signalled while the main list shows the empty result of "z",
\* where a confirm has nothing to act on
C28_Witness ==
    /\ view_mode = "Main"
    /\ events = <<"on_hide">>
    /\ input_value = <<"z">>
    /\ list_state.query = <<"z">>
    /\ list_state.filtered_indices = <<>>
    /\ list_state.selected_index = None

\* (section, row) names an item of the view info describes
valid_section_row(info, section, row) ==
    /\ section < Len(info)
    /\ row < info[section + 1].count

\* C29: the mapping functions answer an index that is no longer valid for
\* the view (a global index past its end, a section or a row past the end
\* of its sections) with a valid position of the view: the last item, the
\* last section, the last row of the section; a valid index is answered
\* unclamped and an empty view with position zero.
C29_StaleIndexClamped ==
    f_stale # None =>
        LET info == unwrap(f_view).section_info
            count == filtered_count(unwrap(f_view))
            asked == unwrap(f_stale).asked
            answer == unwrap(f_stale).answer
        IN  /\ covered(info) = count
            /\ (Len(asked) = 1 /\ count > 0) =>
                  /\ valid_section_row(info, answer[1], answer[2])
                  /\ info[answer[1] + 1].start + answer[2] = Min(asked[1], count - 1)
            /\ (Len(asked) = 2 /\ count > 0) =>
                  LET section == Min(asked[1], Len(info) - 1)
                  IN  /\ answer[1] < count
                      /\ info[section + 1].start <= answer[1]
                      /\ answer[1] < info[section + 1].start + info[section + 1].count
                      /\ valid_section_row(info, asked[1], asked[2])
                            => answer[1] = info[asked[1] + 1].start + asked[2]
            /\ count = 0 => answer \in {<<0, 0>>, <<0>>}

\* A row past the end of the first of two sections was asked for and
\* answered with the last item of that section
C29_Witness ==
    /\ f_stale # None
    /\ f_view # None
    /\ Len(unwrap(f_view).section_info) = 2
    /\ unwrap(f_view).section_info[1].count = 2
    /\ unwrap(f_stale).asked = <<0, 3>>
    /\ unwrap(f_stale).answer = <<1>>

ModeTransitions ==
    { <<"Main", "EmojiPicker">>, <<"Main", "ClipboardHistory">>,
      <<"EmojiPicker", "Main">>, <<"ClipboardHistory", "Main">> }

\* C31: a step either keeps the mode or takes it from Main to EmojiPicker,
\* from Main to ClipboardHistory, from EmojiPicker to Main or from
\* ClipboardHistory to Main, never from one sub-mode to the other; and in
\* Main the back, the navigation and the cancel actions keep the mode.
C31_ModeTransitions ==
    [][/\ view_mode' # view_mode => <<view_mode, view_mode'>> \in ModeTransitions
       /\ (/\ view_mode = "Main"
           /\ \/ GoBack \/ BackButton \/ Cancel
              \/ SelectNext \/ SelectPrev \/ SelectTab \/ SelectTabPrev)
             => view_mode' = "Main"]_vars

\* Back in Main after a visit of the emoji picker and one of the clipboard
\* history, with the main cursor moved on
C31_Witness ==
    /\ view_mode = "Main"
    /\ emoji_list_state = None
    /\ clipboard_list_state = None
    /\ Len(entities) = 2
    /\ entities[1].kind = "emoji"
    /\ entities[2].kind = "clipboard"
    /\ list_state.selected_index = Some(1)
    /\ scroll_target # None

\* The selected item of the main view is a submenu the launcher has no mode for
other_submenu_selected ==
    LET item == selected_item(list_state, MainItems)
    IN  /\ item # None
        /\ is_submenu(unwrap(item))
        /\ unwrap(item).id \notin {"submenu-emojis", "submenu-clipboard"}

\* C32: a confirm in Main on a submenu item whose id is neither
\* "submenu-emojis" nor "submenu-clipboard" keeps the mode Main, creates no
\* sub-mode delegate, makes no external call and runs on_hide once.
C32_OtherSubmenuHides ==
    [][(Confirm /\ view_mode = "Main" /\ other_submenu_selected) =>
          /\ view_mode' = "Main"
          /\ events' = <<"on_hide">>
          /\ UNCHANGED <<list_state, entities, emoji_list_state,
                         clipboard_list_state, input_value>>]_vars

\* Hide was signalled in Main with the cursor on the power submenu of the
\* unfiltered list
C32_Witness ==
    /\ view_mode = "Main"
    /\ other_submenu_selected
    /\ unwrap(selected_item(list_state, MainItems)).id = "submenu-power"
    /\ list_state.query = <<>>
    /\ events = <<"on_hide">>
    /\ entities = <<>>

\* C33: in every filtered view, under the empty and under a non-empty
\* query, the positions of one section label form one contiguous run, the
\* runs follow each other in strictly ascending sort priority, and the
\* sections the delegate reports are exactly these runs.
C33_SectionsContiguous ==
    f_view # None =>
        LET d == unwrap(f_view)
            item(k) == f_items[d.filtered_indices[k] + 1]
            n == filtered_count(d)
        IN  /\ \A k, l, m \in 1..n :
                  (k < l /\ l < m /\ section_name(item(k)) = section_name(item(m)))
                     => section_name(item(l)) = section_name(item(k))
            /\ \A k, l \in 1..n :
                  (k < l /\ section_name(item(k)) # section_name(item(l)))
                     => sort_priority(item(k)) < sort_priority(item(l))
            /\ sections_partition(d, f_items)

\* Under "e" an application given first comes after the action and the
\* submenu given after it, which share the one section Commands
C33_Witness ==
    /\ f_view # None /\ f_query = <<"e">>
    /\ Len(f_items) = 3
    /\ f_items[1].id = "app-files"
    /\ f_items[2].id = "action-shutdown"
    /\ f_items[3].id = "submenu-emojis"
    /\ Len(unwrap(f_view).section_info) = 2
    /\ unwrap(f_view).section_info[1] = [name |-> "Commands", start |-> 0, count |-> 2]
    /\ unwrap(f_view).filtered_indices[3] = 0

\* The view holds delegate e as its emoji or its clipboard delegate
held(e) == emoji_list_state = Some(e) \/ clipboard_list_state = Some(e)

C35_UniqueSearchIds ==
    \A i, j \in 1..Len(s_items) :
        <<s_items[i].provider, s_items[i].query>> # <<s_items[j].provider, s_items[j].query>>
           => s_items[i].id # s_items[j].id

\* C36: parse_color never panics: for every text, texts of "#" and 3, 6 or
\* 8 bytes holding characters of several bytes included, the call returns a
\* colour or None.
C36_ParseColorNeverFaults ==
    c_parsed # None => ~unwrap(c_parsed).fault

\* C37: for every colour c, parse_color(to_hex(c)) returns c.
C37_ColorRoundTrip ==
    (c_color # None /\ c_parsed # None) =>
        /\ ~unwrap(c_parsed).fault
        /\ unwrap(c_parsed).value = c_color

\* A half-transparent colour went through the eight-digit form
C37_Witness ==
    /\ c_color = Some([r |-> 255, g |-> 9, b |-> 15, a |-> 128])
    /\ c_text = Some(<<"#", "F", "F", "0", "9", "0", "F", "8", "0">>)
    /\ c_parsed # None
    /\ unwrap(c_parsed).value = c_color

\* The text "<n> <unit> ago", the unit in the plural exactly when n exceeds 1
ago(n, unit) ==
    to_decimal(n) \o <<unit>> \o (IF n > 1 THEN <<"s">> ELSE <<>>) \o <<" ago">>

\* C38: format_timestamp turns an age of s whole seconds into "Just now" for
\* s < 60, "<s/60> min(s) ago" for 60 <= s < 3600, "<s/3600> hour(s) ago" for
\* 3600 <= s < 86400, the plural exactly when the count exceeds 1, and into
\* "Earlier" for s >= 86400 and for a time in the future.
C38_FormatTimestamp ==
    t_label # None =>
        LET s == t_now - t_time
            label == unwrap(t_label)
        IN  /\ s < 0 => label = <<"Earlier">>
            /\ (0 <= s /\ s < 60) => label = <<"Just now">>
            /\ (60 <= s /\ s < 3600) => label = ago(s \div 60, " min")
            /\ (3600 <= s /\ s < 86400) => label = ago(s \div 3600, " hour")
            /\ s >= 86400 => label = <<"Earlier">>

\* An entry one second short of two hours old is "1 hour ago"
C38_Witness ==
    /\ t_now - t_time = 7199
    /\ t_label = Some(<<"1", " hour", " ago">>)

====
